---- MODULE Spec2Model ----
(***************************************************************************)
(* State-machine model of the private vector-search core:                  *)
(*   search/database/database.go  ReadAllClusters, PackClusters,            *)
(*                                BuildVectorDatabase, DBIndex              *)
(*   main.go                      main from flag parsing to the end of the *)
(*                                query loop, runRound, writeResults        *)
(*                                                                         *)
(* Go slices are 0-based; TLA+ sequences are 1-based.  Cluster ids, stripe *)
(* indices (colIndex), row indices and offsets into vals keep their 0-based *)
(* Go values; only positions inside a TLA+ sequence are shifted by one.    *)
(* All counts in the model are far below 2^64, so uint64 additions and     *)
(* multiplications of counts do not wrap and are modelled on naturals.     *)
(* The two places where the 64-bit width decides the outcome are modelled  *)
(* bit-exactly: the conversion uint64(int8) (Uint64FromInt8) and the shift *)
(* 1<<precBits (LessThanShl1).                                             *)
(***************************************************************************)
EXTENDS Integers, Sequences, FiniteSets, TLC

\* ---------------------------------------------------------------- bounds
MaxClusters == 3
MaxSize == 3
MaxCap == 4
MaxQueries == 3
MaxScores == 1
\* every modelled modulus P is below 2^BigShift, which the model checker can still compute
BigShift == 30

\* ------------------------------------------------------ program constants
\* l := hintSz * 125
LTargetFactor == 125
\* width of uint64 in bits: a shift count >= 64 yields 0
WordBits == 64
\* a uint64 is modelled as its 8 bytes, least significant first
WordBytes == 8
\* logQ := uint64(64)
logQ == 64
\* recordLen := 15
recordLen == 15

VARIABLES
    input,          \* what is on disk / passed in: cluster files, metadata, capacity
    pc,             \* position of the program
    panicMsg,       \* message of the panic that ended the run, "" if none
    metadata,       \* Metadata decoded from <prefix>_metadata.json
    clusters,       \* []*Cluster returned by ReadAllClusters, indexed 0..n-1
    precBits,       \* precBits argument
    maxCapacity,    \* PackClusters' maxCapacity (a local: raised to the largest size)
    clusterIndices, \* PackClusters' sorted index slice, indexed 0..n-1
    i,              \* PackClusters' outer loop index
    cols,           \* [][]uint: stripes, each a sequence of cluster ids
    col_szs,        \* []uint64: row count of each stripe
    placed,         \* history: one record per cluster packed, in packing order
    l,              \* BuildVectorDatabase's l
    m,              \* BuildVectorDatabase's m
    p,              \* *lwe.Params returned by the backend, or Nil
    vals,           \* []uint64 plaintext matrix, indexed 0..l*m-1
    indexMap,       \* map[uint]uint64
    writers,        \* history: for each slot of vals the cluster ids that wrote it
    colIndex,       \* fill loop: current stripe
    pos,            \* fill loop: position inside the current stripe
    rowIndex,       \* fill loop: rowIndex
    db,             \* the pir.Database returned by the backend, or Nil
    calls,          \* history: the calls main has made, in order
    lines,          \* query file: the lines not yet read
    clusterOnly,    \* -clusterOnly flag
    queryCount,     \* main's queryCount
    round,          \* number of calls runRound has made in the current round
    scores,         \* len(*sortedScores) returned by runRound
    topK,           \* -topk flag
    written,        \* number of fields of the last line written to the results file
    hint            \* server.Hint, or Nil

dataVars == <<input, metadata, clusters, precBits>>
packVars == <<maxCapacity, clusterIndices, i, cols, col_szs, placed>>
buildVars == <<l, m, p, vals, indexMap, writers, colIndex, pos, rowIndex, db>>
mainVars == <<calls, lines, clusterOnly, queryCount, round, scores, topK, written, hint>>
vars == <<pc, panicMsg, dataVars, packVars, buildVars, mainVars>>

\* Go's nil pointer
Nil == [nil |-> TRUE]

\* ------------------------------------------------------------- helpers
RECURSIVE SumSeq(_)
SumSeq(s) == IF s = <<>> THEN 0 ELSE Head(s) + SumSeq(Tail(s))

RECURSIVE MaxSeq(_)
\* utils.Max over a non-empty []uint64
MaxSeq(s) == IF Len(s) = 1 THEN s[1]
             ELSE LET r == MaxSeq(Tail(s)) IN IF Head(s) > r THEN Head(s) ELSE r

\* ------------------------------------------------------ 64-bit words
Zero64 == [k \in 1..WordBytes |-> 0]

\* a natural below 256 as a uint64
Word(n) == [k \in 1..WordBytes |-> IF k = 1 THEN n ELSE 0]

\* faulty variant: the int8 is first reinterpreted as a byte and then zero-extended
Uint64FromInt8_zeroext(x) == [k \in 1..WordBytes |-> IF k = 1 THEN x % 256 ELSE 0]

\* Go's conversion uint64(x) of an int8 x: the value is sign-extended to 64 bits
Uint64FromInt8(x) ==
    [k \in 1..WordBytes |-> IF k = 1 THEN x % 256 ELSE IF x < 0 THEN 255 ELSE 0]

RECURSIVE AddCarry(_, _, _, _)
AddCarry(a, b, k, carry) ==
    IF k > WordBytes THEN <<>>
    ELSE LET t == a[k] + b[k] + carry
         IN <<t % 256>> \o AddCarry(a, b, k + 1, t \div 256)

\* a + b modulo 2^64
AddU64(a, b) == LET s == AddCarry(a, b, 1, 0) IN [k \in 1..WordBytes |-> s[k]]

\* ------------------------------------------------------------ DBIndex
\* faulty variant: row and column swapped
DBIndex_swapped(row, col, mm) == col * mm + row

DBIndex(row, col, mm) == row * mm + col

\* ------------------------------------------------- ReadClusterFromCsv
\* int8 values the quantised CSV fields take in the model
Samples == <<-128, -1, 0, 1, 127, -16, 15>>

\* the rows of <prefix>_cluster_<index>.csv after quantisation
FileRows(index, size, dim, seed) ==
    [r \in 1..size |->
        [j \in 1..dim |-> Samples[((seed + 3 * index + (r - 1) * dim + j) % Len(Samples)) + 1]]]

ReadClusterFromCsv(rows, index, dim, pb) ==
    LET numVec == Len(rows)
    IN [Index |-> index,
        NumVectors |-> numVec,
        Dim |-> dim,
        PrecBits |-> pb,
        Vectors |-> [t \in 1..(numVec * dim) |->
                        rows[((t - 1) \div dim) + 1][((t - 1) % dim) + 1]]]

\* if vecCountVeri != numVectors { panic(...) }
TotalMismatch(vecCountVeri, numVectors) == vecCountVeri # numVectors

ReadAllClusters ==
    /\ pc = "ReadAllClusters"
    /\ LET n == input.numClusters
           cs == [k \in 0..(n - 1) |->
                    ReadClusterFromCsv(input.files[k + 1], k, input.dim, precBits)]
           vecCountVeri == SumSeq([k \in 1..n |-> cs[k - 1].NumVectors])
       IN IF TotalMismatch(vecCountVeri, input.numVectors)
          THEN /\ pc' = "panic"
               /\ panicMsg' = "Total number of vectors mismatch"
               /\ UNCHANGED <<metadata, clusters>>
          ELSE /\ pc' = "PackClusters"
               /\ metadata' = [NumVectors |-> input.numVectors, Dim |-> input.dim,
                               NumClusters |-> n]
               /\ clusters' = cs
               /\ UNCHANGED panicMsg
    /\ UNCHANGED <<input, precBits, packVars, buildVars, mainVars>>

\* ------------------------------------------------------- PackClusters
\* for i := uint64(0); i < numClusters; i++ { clusterIndices[i] = i }
Identity(n) == [k \in 0..(n - 1) |-> k]

\* faulty variant: comparison reversed, smallest first
less_ascending(d, x, y) == clusters[d[x]].NumVectors < clusters[d[y]].NumVectors

\* the comparator handed to sort.Slice, on positions x, y of the slice d being
\* sorted: clusters[clusterIndices[i]].NumVectors > clusters[clusterIndices[j]].NumVectors
less(d, x, y) == clusters[d[x]].NumVectors > clusters[d[y]].NumVectors

\* the swapper sort.Slice builds for the slice
Swap(d, x, y) == [d EXCEPT ![x] = d[y], ![y] = d[x]]

\* sort.Slice(clusterIndices, less) runs the standard library's pdqsort_func on
\* positions 0..n-1 with the comparator and swapper above and the limit
\* bits.Len(n).  The operators below follow that routine step by step; each takes
\* the slice d and returns the slice the routine leaves.

\* F applied to the value of e: e is evaluated once, as an assignment to a
\* local variable is, however often F uses it
Once(e, F(_)) == CHOOSE r \in {F(v) : v \in {e}} : TRUE

RECURSIVE bitsLen(_)
\* bits.Len(uint(n)): the number of bits needed to write n
bitsLen(n) == IF n = 0 THEN 0 ELSE 1 + bitsLen(n \div 2)

\* slices of at most this many elements are sorted by insertion
maxInsertion == 12
\* from this length on the pivot is the median of three medians
shortestNinther == 50
\* the number of exchanges in choosePivot_func that marks a descending slice
maxSwaps == 4 * 3
\* partialInsertionSort_func repairs at most this many out-of-order pairs
maxSteps == 5
\* partialInsertionSort_func moves no element of a slice shorter than this
shortestShifting == 50

RECURSIVE insertionInner(_, _, _)
\* for j := i; j > a && less(j, j-1); j-- { swap(j, j-1) }
insertionInner(d, a, j) ==
    IF j > a /\ less(d, j, j - 1)
    THEN Once(Swap(d, j, j - 1), LAMBDA d1 : insertionInner(d1, a, j - 1))
    ELSE d

RECURSIVE insertionOuter(_, _, _, _)
insertionOuter(d, a, b, k) ==
    IF k < b
    THEN Once(insertionInner(d, a, k), LAMBDA d1 : insertionOuter(d1, a, b, k + 1))
    ELSE d

\* for i := a + 1; i < b; i++ { ... }
insertionSort_func(d, a, b) == insertionOuter(d, a, b, a + 1)

RECURSIVE siftDown_func(_, _, _, _)
\* restores the heap property below root lo of the heap stored from position first
siftDown_func(d, lo, hi, first) ==
    LET child == 2 * lo + 1
        big == IF child + 1 < hi /\ less(d, first + child, first + child + 1)
               THEN child + 1 ELSE child
    IN IF child >= hi THEN d
       ELSE IF ~less(d, first + lo, first + big) THEN d
       ELSE Once(Swap(d, first + lo, first + big),
                 LAMBDA d1 : siftDown_func(d1, big, hi, first))

RECURSIVE heapBuild(_, _, _, _)
\* for i := (hi - 1) / 2; i >= 0; i-- { siftDown(i, hi, first) }
heapBuild(d, k, hi, first) ==
    IF k < 0 THEN d
    ELSE Once(siftDown_func(d, k, hi, first), LAMBDA d1 : heapBuild(d1, k - 1, hi, first))

RECURSIVE heapPop(_, _, _)
\* for i := hi - 1; i >= 0; i-- { swap(first, first+i); siftDown(0, i, first) }
heapPop(d, k, first) ==
    IF k < 0 THEN d
    ELSE Once(siftDown_func(Swap(d, first, first + k), 0, k, first),
              LAMBDA d1 : heapPop(d1, k - 1, first))

\* the fallback after too many unbalanced partitions
heapSort_func(d, a, b) ==
    Once(heapBuild(d, (b - a - 1) \div 2, b - a, a), LAMBDA d1 : heapPop(d1, b - a - 1, a))

\* the state of the xorshift generator: a uint64 as its bits, least significant
\* first; the seed is a slice length, below 2^30
BitsOf(n) == [k \in 0..(WordBits - 1) |-> IF k < 30 THEN (n \div 2 ^ k) % 2 ELSE 0]

Shl(r, s) == [k \in 0..(WordBits - 1) |-> IF k >= s THEN r[k - s] ELSE 0]

Shr(r, s) == [k \in 0..(WordBits - 1) |-> IF k + s < WordBits THEN r[k + s] ELSE 0]

Xor(x, y) == [k \in 0..(WordBits - 1) |-> (x[k] + y[k]) % 2]

\* r ^= r << 13; r ^= r >> 7; r ^= r << 17
xorshift_Next(r) ==
    Once(Xor(r, Shl(r, 13)), LAMBDA r1 :
    Once(Xor(r1, Shr(r1, 7)), LAMBDA r2 : Xor(r2, Shl(r2, 17))))

RECURSIVE LowBits(_, _)
\* r & (1<<nbits - 1)
LowBits(r, nbits) ==
    IF nbits = 0 THEN 0 ELSE LowBits(r, nbits - 1) + r[nbits - 1] * 2 ^ (nbits - 1)

\* int(uint(random) & (modulus - 1)), less length if that is not below length
otherOf(r, len) ==
    Once(LowBits(r, bitsLen(len)), LAMBDA o : IF o >= len THEN o - len ELSE o)

\* exchanges three elements around the middle with pseudo-random ones; the
\* generator is seeded with the length, so the exchanges depend on it alone
breakPatterns_func(d, a, b) ==
    LET len == b - a
        idx == a + (len \div 4) * 2 - 1
    IN IF len >= 8
       THEN Once(xorshift_Next(BitsOf(len)), LAMBDA r1 :
            Once(xorshift_Next(r1), LAMBDA r2 :
            Once(xorshift_Next(r2), LAMBDA r3 :
            Once(Swap(d, idx - 1, a + otherOf(r1, len)), LAMBDA d1 :
            Once(Swap(d1, idx, a + otherOf(r2, len)), LAMBDA d2 :
                 Swap(d2, idx + 1, a + otherOf(r3, len)))))))
       ELSE d

\* positions x, y in comparator order, and the number of exchanges so far
order2_func(d, x, y, swaps) ==
    IF less(d, y, x) THEN <<y, x, swaps + 1>> ELSE <<x, y, swaps>>

\* position of the median of d[x], d[y], d[z], and the exchanges so far
median_func(d, x, y, z, swaps) ==
    Once(order2_func(d, x, y, swaps), LAMBDA s1 :
    Once(order2_func(d, s1[2], z, s1[3]), LAMBDA s2 :
    Once(order2_func(d, s1[1], s2[1], s2[3]), LAMBDA s3 :
         [pivot |-> s3[2], swaps |-> s3[3]])))

\* median of d[x-1], d[x], d[x+1]
medianAdjacent_func(d, x, swaps) == median_func(d, x - 1, x, x + 1, swaps)

\* fewer than 8 elements: the middle one; fewer than shortestNinther: the
\* median of the elements at a + l/4, a + 2*(l/4), a + 3*(l/4); otherwise the
\* median of the medians around those three.  swaps = 0 is the hint that the
\* slice may be in order, swaps = maxSwaps that it may be in reverse order.
choosePivot_func(d, a, b) ==
    LET len == b - a
        q == len \div 4
        x == a + q
        y == a + 2 * q
        z == a + 3 * q
    IN IF len >= 8
       THEN IF len >= shortestNinther
            THEN Once(medianAdjacent_func(d, x, 0), LAMBDA m1 :
                 Once(medianAdjacent_func(d, y, m1.swaps), LAMBDA m2 :
                 Once(medianAdjacent_func(d, z, m2.swaps), LAMBDA m3 :
                      median_func(d, m1.pivot, m2.pivot, m3.pivot, m3.swaps))))
            ELSE median_func(d, x, y, z, 0)
       ELSE [pivot |-> y, swaps |-> 0]

RECURSIVE reverseLoop(_, _, _)
reverseLoop(d, lo, hi) ==
    IF lo < hi
    THEN Once(Swap(d, lo, hi), LAMBDA d1 : reverseLoop(d1, lo + 1, hi - 1))
    ELSE d

\* for i, j := a, b-1; i < j; i, j = i+1, j-1 { swap(i, j) }
reverseRange_func(d, a, b) == reverseLoop(d, a, b - 1)

RECURSIVE inOrderUpTo(_, _, _)
\* for i < b && !less(i, i-1) { i++ }
inOrderUpTo(d, k, b) ==
    IF k < b /\ ~less(d, k, k - 1) THEN inOrderUpTo(d, k + 1, b) ELSE k

RECURSIVE shiftLeft(_, _)
\* for j := i - 1; j >= 1; j-- { if !less(j, j-1) { break }; swap(j, j-1) }
shiftLeft(d, j) ==
    IF j >= 1 /\ less(d, j, j - 1)
    THEN Once(Swap(d, j, j - 1), LAMBDA d1 : shiftLeft(d1, j - 1))
    ELSE d

RECURSIVE shiftRight(_, _, _)
\* for j := i + 1; j < b; j++ { if !less(j, j-1) { break }; swap(j, j-1) }
shiftRight(d, j, b) ==
    IF j < b /\ less(d, j, j - 1)
    THEN Once(Swap(d, j, j - 1), LAMBDA d1 : shiftRight(d1, j + 1, b))
    ELSE d

RECURSIVE partialSteps(_, _, _, _, _)
\* the loop over j := 0; j < maxSteps; j++, from position k
partialSteps(d, a, b, k, step) ==
    IF step >= maxSteps THEN [d |-> d, sorted |-> FALSE]
    ELSE Once(inOrderUpTo(d, k, b), LAMBDA k2 :
         IF k2 = b THEN [d |-> d, sorted |-> TRUE]
         ELSE IF b - a < shortestShifting THEN [d |-> d, sorted |-> FALSE]
         ELSE Once(Swap(d, k2, k2 - 1), LAMBDA d1 :
              Once(IF k2 - a >= 2 THEN shiftLeft(d1, k2 - 1) ELSE d1, LAMBDA d2 :
              Once(IF b - k2 >= 2 THEN shiftRight(d2, k2 + 1, b) ELSE d2, LAMBDA d3 :
                   partialSteps(d3, a, b, k2, step + 1)))))

\* repairs a few out-of-order pairs of a long slice; sorted is true iff the
\* slice is in order when it returns
partialInsertionSort_func(d, a, b) == partialSteps(d, a, b, a + 1, 0)

RECURSIVE scanUp(_, _, _, _)
\* for i <= j && less(i, a) { i++ }
scanUp(d, a, lo, hi) ==
    IF lo <= hi /\ less(d, lo, a) THEN scanUp(d, a, lo + 1, hi) ELSE lo

RECURSIVE scanDown(_, _, _, _)
\* for i <= j && !less(j, a) { j-- }
scanDown(d, a, lo, hi) ==
    IF lo <= hi /\ ~less(d, hi, a) THEN scanDown(d, a, lo, hi - 1) ELSE hi

RECURSIVE partitionLoop(_, _, _, _)
\* the remaining exchanges of the partition, with the pivot parked at a
partitionLoop(d, a, lo, hi) ==
    Once(scanUp(d, a, lo, hi), LAMBDA lo2 :
    Once(scanDown(d, a, lo2, hi), LAMBDA hi2 :
         IF lo2 > hi2 THEN [d |-> d, j |-> hi2]
         ELSE Once(Swap(d, lo2, hi2), LAMBDA d1 :
                   partitionLoop(d1, a, lo2 + 1, hi2 - 1))))

\* one partition around d[pivot]: elements the comparator puts before the
\* pivot end up left of position mid, the pivot at mid, the rest right of it
partition_func(d, a, b, pivot) ==
    Once(Swap(d, a, pivot), LAMBDA d1 :
    Once(scanUp(d1, a, a + 1, b - 1), LAMBDA lo1 :
    Once(scanDown(d1, a, lo1, b - 1), LAMBDA hi1 :
         IF lo1 > hi1
         THEN [d |-> Swap(d1, hi1, a), mid |-> hi1, alreadyPartitioned |-> TRUE]
         ELSE Once(Swap(d1, lo1, hi1), LAMBDA d2 :
              Once(partitionLoop(d2, a, lo1 + 1, hi1 - 1), LAMBDA r :
                   [d |-> Swap(r.d, r.j, a), mid |-> r.j,
                    alreadyPartitioned |-> FALSE])))))

RECURSIVE scanUpEqual(_, _, _, _)
\* for i <= j && !less(a, i) { i++ }
scanUpEqual(d, a, lo, hi) ==
    IF lo <= hi /\ ~less(d, a, lo) THEN scanUpEqual(d, a, lo + 1, hi) ELSE lo

RECURSIVE scanDownEqual(_, _, _, _)
\* for i <= j && less(a, j) { j-- }
scanDownEqual(d, a, lo, hi) ==
    IF lo <= hi /\ less(d, a, hi) THEN scanDownEqual(d, a, lo, hi - 1) ELSE hi

RECURSIVE partitionEqualLoop(_, _, _, _)
partitionEqualLoop(d, a, lo, hi) ==
    Once(scanUpEqual(d, a, lo, hi), LAMBDA lo2 :
    Once(scanDownEqual(d, a, lo2, hi), LAMBDA hi2 :
         IF lo2 > hi2 THEN [d |-> d, mid |-> lo2]
         ELSE Once(Swap(d, lo2, hi2), LAMBDA d1 :
                   partitionEqualLoop(d1, a, lo2 + 1, hi2 - 1))))

\* elements equal to d[pivot] first, the others from position mid on
partitionEqual_func(d, a, b, pivot) ==
    Once(Swap(d, a, pivot), LAMBDA d1 : partitionEqualLoop(d1, a, a + 1, b - 1))

RECURSIVE pdqsort_func(_, _, _, _, _, _)
\* one turn of pdqsort_func's loop on a..b-1, then the recursive call on the
\* shorter side and the following turns on the longer one.  wasBalanced and
\* wasPartitioned are the routine's two flags, true when it is entered.
pdqsort_func(d, a, b, limit, wasBalanced, wasPartitioned) ==
    IF b - a <= maxInsertion THEN insertionSort_func(d, a, b)
    ELSE IF limit = 0 THEN heapSort_func(d, a, b)
    ELSE
    LET limit1 == IF wasBalanced THEN limit ELSE limit - 1
        balanceThreshold == (b - a) \div 8
    IN
    Once(IF wasBalanced THEN d ELSE breakPatterns_func(d, a, b), LAMBDA d1 :
    Once(choosePivot_func(d1, a, b), LAMBDA cp :
    LET decreasing == cp.swaps = maxSwaps
        pivot == IF decreasing THEN (b - 1) - (cp.pivot - a) ELSE cp.pivot
        try == wasBalanced /\ wasPartitioned /\ (cp.swaps = 0 \/ decreasing)
    IN
    Once(IF decreasing THEN reverseRange_func(d1, a, b) ELSE d1, LAMBDA d2 :
    Once(IF try THEN partialInsertionSort_func(d2, a, b)
         ELSE [d |-> d2, sorted |-> FALSE], LAMBDA pis :
    IF pis.sorted THEN pis.d
    ELSE IF a > 0 /\ ~less(pis.d, a - 1, pivot)
    THEN Once(partitionEqual_func(pis.d, a, b, pivot), LAMBDA pe :
              pdqsort_func(pe.d, pe.mid, b, limit1, wasBalanced, wasPartitioned))
    ELSE Once(partition_func(pis.d, a, b, pivot), LAMBDA pt :
         IF pt.mid - a < b - pt.mid
         THEN Once(pdqsort_func(pt.d, a, pt.mid, limit1, TRUE, TRUE), LAMBDA d3 :
                   pdqsort_func(d3, pt.mid + 1, b, limit1,
                                pt.mid - a >= balanceThreshold, pt.alreadyPartitioned))
         ELSE Once(pdqsort_func(pt.d, pt.mid + 1, b, limit1, TRUE, TRUE), LAMBDA d3 :
                   pdqsort_func(d3, a, pt.mid, limit1,
                                b - pt.mid >= balanceThreshold, pt.alreadyPartitioned)))))))

\* lines 92-99: clusterIndices after sort.Slice
SortSlice(n) == pdqsort_func(Identity(n), 0, n, bitsLen(n), TRUE, TRUE)

\* faulty variant: non-strict comparison
Fits_nonstrict(colSz, s, cap) == colSz + s <= cap

\* col_szs[j]+clusters[clusterIndices[i]].NumVectors < maxCapacity
Fits(colSz, s, cap) == colSz + s < cap

RECURSIVE FirstFit(_, _, _, _)
\* the inner loop over j: position of the first stripe that fits, 0 if none (fit == false)
FirstFit(j, szs, s, cap) ==
    IF j > Len(szs) THEN 0
    ELSE IF Fits(szs[j], s, cap) THEN j
    ELSE FirstFit(j + 1, szs, s, cap)

\* faulty variant: the stripe's contents are overwritten instead of appended to
AppendToCol_overwrite(cs, j, id) == [cs EXCEPT ![j] = <<id>>]

\* cols[j] = append(cols[j], id)
AppendToCol(cs, j, id) == [cs EXCEPT ![j] = Append(@, id)]

\* faulty variant: the stripe's row count is overwritten instead of increased
AddToColSz_overwrite(szs, j, s) == [szs EXCEPT ![j] = s]

\* col_szs[j] += s
AddToColSz(szs, j, s) == [szs EXCEPT ![j] = @ + s]

\* lines 86-109: sort, raise the capacity, open stripe 0 with the largest cluster
PackStart ==
    /\ pc = "PackClusters"
    /\ LET numClusters == Cardinality(DOMAIN clusters)
       IN IF numClusters = 0
          THEN /\ pc' = "panic"
               /\ panicMsg' = "No clusters given"
               /\ UNCHANGED packVars
          ELSE LET sorted == SortSlice(numClusters)
                   first == clusters[sorted[0]]
                IN /\ clusterIndices' = sorted
                   /\ maxCapacity' = IF first.NumVectors > maxCapacity
                                     THEN first.NumVectors ELSE maxCapacity
                   /\ cols' = << <<first.Index>> >>
                   /\ col_szs' = <<first.NumVectors>>
                   /\ placed' = <<[id |-> first.Index, size |-> first.NumVectors,
                                   stripe |-> 0, before |-> <<>>]>>
                   /\ i' = 1
                   /\ pc' = IF numClusters = 1 THEN "packed" ELSE "packloop"
                   /\ UNCHANGED panicMsg
    /\ UNCHANGED <<dataVars, buildVars, mainVars>>

\* lines 111-127: one iteration of the outer loop
PackStep ==
    /\ pc = "packloop"
    /\ LET numClusters == Cardinality(DOMAIN clusters)
           c == clusters[clusterIndices[i]]
           j == FirstFit(1, col_szs, c.NumVectors, maxCapacity)
       IN /\ IF j # 0
             THEN /\ col_szs' = AddToColSz(col_szs, j, c.NumVectors)
                  /\ cols' = AppendToCol(cols, j, c.Index)
             ELSE /\ cols' = Append(cols, <<c.Index>>)
                  /\ col_szs' = Append(col_szs, c.NumVectors)
          /\ placed' = Append(placed, [id |-> c.Index, size |-> c.NumVectors,
                                       stripe |-> (IF j # 0 THEN j ELSE Len(cols) + 1) - 1,
                                       before |-> col_szs])
          /\ i' = i + 1
          /\ pc' = IF i + 1 < numClusters THEN "packloop" ELSE "packed"
    /\ UNCHANGED <<panicMsg, dataVars, maxCapacity, clusterIndices, buildVars, mainVars>>

\* ------------------------------------------------ BuildVectorDatabase
\* precBits values tried: the default 5, the boundary 15 (2^15 = P), 16, the
\* largest shift that does not wrap, and the smallest that does
PrecBitsSamples == {5, 15, 16, 63, 64}

\* lwe.NewParamsFixedP(logQ, m, 1<<recordLen): the backend returns nil or
\* parameters with the modulus asked for; whether it does, and the Logq it
\* settles on, are the backend's choice
NewParamsFixedP(lq, mm, P) ==
    {Nil} \cup {[P |-> P, Logq |-> q, M |-> mm] : q \in {32, lq}}

\* p.P < uint64(1<<precBits) on uint64: the constant 1 is a uint64, and a shift
\* by 64 or more yields 0, which no unsigned P is below.  All modelled P are
\* below 2^BigShift, so for BigShift <= pb < 64 the comparison is true.
LessThanShl1(P, pb) ==
    IF pb >= WordBits THEN FALSE
    ELSE IF pb >= BigShift THEN TRUE
    ELSE P < 2 ^ pb

\* l = utils.Max(colSzs)
StripeHeight(szs) == MaxSeq(szs)

\* lines 195-210: matrix shape, backend parameters and their check, allocation
PickParams ==
    /\ pc = "packed"
    /\ input.entry \in {"BuildVectorDatabase", "main"}
    /\ LET dim == metadata.Dim
           mm == Len(cols) * dim
           ll == StripeHeight(col_szs)
       IN /\ m' = mm
          /\ l' = ll
          /\ \E ret \in NewParamsFixedP(logQ, mm, 2 ^ recordLen) :
                /\ p' = ret
                /\ IF ret = Nil
                   THEN /\ pc' = "panic"
                        /\ panicMsg' = "nil pointer dereference"
                        /\ UNCHANGED <<vals, writers>>
                   ELSE IF LessThanShl1(ret.P, precBits) \/ ret.Logq # 64
                   THEN /\ pc' = "panic"
                        /\ panicMsg' = "Failure in picking SimplePIR DB parameters"
                        /\ UNCHANGED <<vals, writers>>
                   ELSE /\ pc' = "fill"
                        /\ vals' = [k \in 0..(ll * mm - 1) |-> Zero64]
                        /\ writers' = [k \in 0..(ll * mm - 1) |-> {}]
                        /\ UNCHANGED panicMsg
    /\ UNCHANGED <<dataVars, packVars, indexMap, colIndex, pos, rowIndex, db, mainVars>>

\* faulty variant: rowIndex is not advanced
RowOf_stuck(row, x) == row

\* rowIndex after x executions of  rowIndex += 1
RowOf(row, x) == row + x

RECURSIVE StoreVectors(_, _, _, _, _, _, _)
\* lines 224-229, the assignments to vals in the order the loops make them:
\* value number t of the cluster (vector t / slots, lane t % slots) and all
\* later ones up to count are stored; mem is <<vals, writers>>
StoreVectors(mem, clusterIndex, t, count, row, col, mm) ==
    IF t >= count THEN mem
    ELSE LET slots == metadata.Dim
             k == DBIndex(RowOf(row, t \div slots), col + (t % slots), mm)
         IN StoreVectors(
                <<[mem[1] EXCEPT ![k] = Uint64FromInt8(clusters[clusterIndex].Vectors[t + 1])],
                  [mem[2] EXCEPT ![k] = @ \cup {clusterIndex}]>>,
                clusterIndex, t + 1, count, row, col, mm)

\* lines 214-234: the body of the inner range loop, for one cluster of one stripe.
\* A write outside vals is Go's index-out-of-range panic; the vectors before
\* the one that panics are stored.
FillCluster ==
    /\ pc = "fill"
    /\ LET clusterIndex == cols[colIndex + 1][pos + 1]
           slots == metadata.Dim
           sz == clusters[clusterIndex].NumVectors
           ix(x, j) == DBIndex(RowOf(rowIndex, x), slots * colIndex + j, m)
           outOfRange(x) == \E j \in 0..(slots - 1) : ix(x, j) >= l * m
           overflow(x) == RowOf(rowIndex, x + 1) > l
           bad == {x \in 0..(sz - 1) : outOfRange(x) \/ overflow(x)}
           firstBad == CHOOSE x \in bad : \A y \in bad : x <= y
           stored == IF bad = {} THEN sz ELSE firstBad
           mem == StoreVectors(<<vals, writers>>, clusterIndex, 0, stored * slots,
                               rowIndex, slots * colIndex, m)
           lastOfCol == pos + 1 = Len(cols[colIndex + 1])
       IN IF clusterIndex \in DOMAIN indexMap
          THEN /\ pc' = "panic"
               /\ panicMsg' = "Key should not yet exist"
               /\ UNCHANGED <<vals, indexMap, writers, colIndex, pos, rowIndex>>
          ELSE /\ indexMap' = [c \in DOMAIN indexMap \cup {clusterIndex} |->
                                 IF c = clusterIndex
                                 THEN DBIndex(rowIndex, slots * colIndex, m)
                                 ELSE indexMap[c]]
               /\ vals' = mem[1]
               /\ writers' = mem[2]
               /\ IF bad # {}
                  THEN /\ pc' = "panic"
                       /\ panicMsg' = IF outOfRange(firstBad)
                                      THEN "index out of range" ELSE "Should not happen"
                       /\ UNCHANGED <<colIndex, pos, rowIndex>>
                  ELSE /\ UNCHANGED panicMsg
                       /\ rowIndex' = IF lastOfCol THEN 0 ELSE RowOf(rowIndex, sz)
                       /\ pos' = IF lastOfCol THEN 0 ELSE pos + 1
                       /\ colIndex' = IF lastOfCol THEN colIndex + 1 ELSE colIndex
                       /\ pc' = IF lastOfCol /\ colIndex + 1 = Len(cols)
                                THEN "newdb" ELSE "fill"
    /\ UNCHANGED <<dataVars, packVars, l, m, p, db, mainVars>>

\* pir.NewDatabaseFixedParams(l*m, recordLen, vals, p): the backend lays num
\* values out in rows of p.M
NewDatabaseFixedParams(num, params) ==
    [L |-> IF params.M = 0 THEN 0 ELSE (num + params.M - 1) \div params.M,
     M |-> params.M]

\* lines 237-244
NewDatabase ==
    /\ pc = "newdb"
    /\ LET d == NewDatabaseFixedParams(l * m, p)
       IN /\ db' = d
          /\ IF d.L # l
             THEN pc' = "panic" /\ panicMsg' = "Should not happen (db.Info.L)"
             ELSE pc' = "built" /\ UNCHANGED panicMsg
    /\ UNCHANGED <<dataVars, packVars, l, m, p, vals, indexMap, writers,
                   colIndex, pos, rowIndex, mainVars>>

\* ------------------------------------------------------ initial states
Files(sizes, dim, seed) ==
    [k \in 1..Len(sizes) |-> FileRows(k - 1, sizes[k], dim, seed)]

SizeLists == UNION {[1..n -> 0..MaxSize] : n \in 0..MaxClusters}

\* scenario S3 of the specification
S3 == [sizes |-> <<10, 9, 5, 5, 5>>, cap |-> 12]

\* nothing read, packed or built yet
InitServer ==
    /\ panicMsg = ""
    /\ metadata = Nil
    /\ clusters = <<>>
    /\ maxCapacity = input.cap
    /\ clusterIndices = <<>>
    /\ i = 0
    /\ cols = <<>>
    /\ col_szs = <<>>
    /\ placed = <<>>
    /\ l = 0
    /\ m = 0
    /\ p = Nil
    /\ vals = <<>>
    /\ indexMap = <<>>
    /\ writers = <<>>
    /\ colIndex = 0
    /\ pos = 0
    /\ rowIndex = 0
    /\ db = Nil

\* no query loop
InitNoClient ==
    /\ calls = <<>>
    /\ lines = <<>>
    /\ clusterOnly = FALSE
    /\ queryCount = 0
    /\ round = 0
    /\ scores = 0
    /\ topK = 10
    /\ written = 0
    /\ hint = Nil

\* one more cluster than sort.Slice sorts by insertion: every cluster holds one
\* vector except one, which holds none, one or two
LongSizeLists ==
    {[k \in 1..(maxInsertion + 1) |-> IF k = at THEN s ELSE 1] :
        at \in 1..(maxInsertion + 1), s \in 0..2}

\* more clusters still: sort.Slice partitions twice on the first list, and
\* scatters elements after an unbalanced partition on the second
LoopSizeLists ==
    {<<2, 1, 1, 0, 1, 2, 0, 2, 1, 2, 1, 2, 2, 1, 1>>,
     <<0, 1, 1, 1, 0, 1, 1, 1, 1, 1, 0, 1, 0, 1>>}

\* PackClusters called on the clusters ReadAllClusters returns, any capacity
PackInputs ==
    {[entry |-> "PackClusters", files |-> Files(sizes, 1, 0),
      numClusters |-> Len(sizes), dim |-> 1,
      numVectors |-> SumSeq(sizes) + extra, cap |-> cap] :
        sizes \in SizeLists, cap \in 0..MaxCap, extra \in 0..1}
    \cup {[entry |-> "PackClusters", files |-> Files(sizes, 1, 0),
           numClusters |-> Len(sizes), dim |-> 1,
           numVectors |-> SumSeq(sizes), cap |-> cap] :
             sizes \in LongSizeLists \cup LoopSizeLists, cap \in {0, MaxCap}}
    \cup {[entry |-> "PackClusters", files |-> Files(S3.sizes, 1, 0),
           numClusters |-> Len(S3.sizes), dim |-> 1,
           numVectors |-> SumSeq(S3.sizes), cap |-> S3.cap]}

InitPack ==
    /\ input \in PackInputs
    /\ precBits = 5
    /\ pc = "ReadAllClusters"
    /\ InitServer
    /\ InitNoClient

NextPack == ReadAllClusters \/ PackStart \/ PackStep

SpecPack == InitPack /\ [][NextPack]_vars

\* ------------------------------------------------- claims: PackClusters
NumClusters == Cardinality(DOMAIN clusters)

ClusterSizes == [k \in 1..NumClusters |-> clusters[k - 1].NumVectors]

\* the ids packed into stripe j (0-based), in packing order, read off the history
RECURSIVE PlacedIn(_, _)
PlacedIn(j, k) ==
    IF k > Len(placed) THEN <<>>
    ELSE (IF placed[k].stripe = j THEN <<placed[k].id>> ELSE <<>>) \o PlacedIn(j, k + 1)

\* 0-based stripes that had room for record r when it was packed
FitSet(r) == {j \in 0..(Len(r.before) - 1) : r.before[j + 1] + r.size < maxCapacity}

\* C1: PackClusters is first-fit with a strict comparison.  The capacity used is
\* max(maxCapacity argument, largest cluster size); the largest cluster opens
\* stripe 0; every later cluster goes to the lowest-index stripe j with
\* count[j] + s < cap', or alone into a new stripe when there is none (so never
\* into a stripe it would fill exactly); and for sizes [10, 9, 5, 5, 5] with
\* capacity 12 the cluster of size 9 ends alone in its stripe.
C1_FirstFitStrict ==
    pc \in {"packloop", "packed"} =>
        /\ maxCapacity = (IF MaxSeq(ClusterSizes) > input.cap
                          THEN MaxSeq(ClusterSizes) ELSE input.cap)
        /\ placed[1].stripe = 0
        /\ placed[1].size = MaxSeq(ClusterSizes)
        /\ \A k \in 2..Len(placed) :
              LET r == placed[k]
              IN /\ IF FitSet(r) = {}
                    THEN r.stripe = Len(r.before)
                    ELSE /\ r.stripe \in FitSet(r)
                         /\ \A j \in FitSet(r) : r.stripe <= j
                 /\ \A j \in 0..(Len(r.before) - 1) :
                        r.before[j + 1] + r.size = maxCapacity => r.stripe # j
        /\ \A j \in 0..(Len(cols) - 1) : cols[j + 1] = PlacedIn(j, 1)
        /\ (pc = "packed" /\ ClusterSizes = S3.sizes /\ input.cap = S3.cap) =>
               \E j \in 1..Len(cols) : cols[j] = <<1>>

\* C1 witness: packing finished, one cluster was appended to an existing stripe,
\* and one cluster that would have filled a stripe exactly was kept out of it.
C1_Witness ==
    /\ pc = "packed"
    /\ \E k \in 2..Len(placed) : placed[k].stripe < Len(placed[k].before)
    /\ \E k \in 2..Len(placed) : \E j \in 1..Len(placed[k].before) :
          /\ placed[k].before[j] + placed[k].size = maxCapacity
          /\ placed[k].size > 0

\* places <<j, k>> where cluster id occurs in cols
Occurrences(id) ==
    {jk \in (1..Len(cols)) \X (1..MaxClusters + 5) :
        jk[2] <= Len(cols[jk[1]]) /\ cols[jk[1]][jk[2]] = id}

\* C2: for a non-empty cluster list with clusters[i].Index = i, the returned
\* stripes contain every id of 0..numClusters-1 exactly once and no other id.
C2_EachClusterOnce ==
    pc = "packed" =>
        /\ \A id \in 0..(NumClusters - 1) : Cardinality(Occurrences(id)) = 1
        /\ \A j \in 1..Len(cols) : \A k \in 1..Len(cols[j]) :
              cols[j][k] \in 0..(NumClusters - 1)

\* C2 witness: a finished packing with at least two stripes, one holding several clusters.
C2_Witness ==
    /\ pc = "packed"
    /\ Len(cols) >= 2
    /\ \E j \in 1..Len(cols) : Len(cols[j]) >= 2

\* number of CSV rows in all cluster files
RowsOnDisk == SumSeq([k \in 1..Len(input.files) |-> Len(input.files[k])])

\* C6: packing conserves the vector count: every colRowCounts[c] is the sum of
\* NumVectors over the clusters of cols[c], and the sum of colRowCounts equals the
\* sum of all cluster sizes, which equals metadata.NumVectors; ReadAllClusters
\* panics when the files' total differs from metadata.NumVectors.
C6_Conservation ==
    /\ (pc # "ReadAllClusters" /\ input.numVectors # RowsOnDisk) =>
          (pc = "panic" /\ panicMsg = "Total number of vectors mismatch")
    /\ pc \in {"packloop", "packed"} =>
        /\ Len(col_szs) = Len(cols)
        /\ \A j \in 1..Len(cols) :
              col_szs[j] = SumSeq([k \in 1..Len(cols[j]) |-> clusters[cols[j][k]].NumVectors])
        /\ pc = "packed" =>
              /\ SumSeq(col_szs) = SumSeq(ClusterSizes)
              /\ SumSeq(ClusterSizes) = metadata.NumVectors
              /\ metadata.NumVectors = RowsOnDisk

\* C6 witness: a finished packing in which a stripe holds two non-empty clusters.
C6_Witness ==
    /\ pc = "packed"
    /\ metadata.NumVectors > 0
    /\ \E j \in 1..Len(cols) :
          /\ Len(cols[j]) >= 2
          /\ \A k \in 1..Len(cols[j]) : clusters[cols[j][k]].NumVectors > 0

\* C8 as stated: clusters of equal size are always packed in ascending order of
\* their original index (a stable sort).
C8_StableTies ==
    \A a, b \in 1..Len(placed) :
        (a < b /\ placed[a].size = placed[b].size) => placed[a].id < placed[b].id

\* C8 amended: clusters are packed in non-increasing NumVectors order, each
\* cluster once, in the order sort.Slice left in clusterIndices; clusters of
\* equal size are packed in ascending order of their original index when there
\* are at most maxInsertion clusters, and in no guaranteed order beyond that.
C8_DescendingOrder ==
    pc \in {"packloop", "packed"} =>
        /\ \A a, b \in 1..Len(placed) :
              a < b => placed[a].size >= placed[b].size
        /\ \A a \in 1..Len(placed) :
              /\ placed[a].id = clusters[clusterIndices[a - 1]].Index
              /\ placed[a].size = clusters[placed[a].id].NumVectors
        /\ NumClusters <= maxInsertion =>
              \A a, b \in 1..Len(placed) :
                  (a < b /\ placed[a].size = placed[b].size)
                      => placed[a].id < placed[b].id
        /\ pc = "packed" => Len(placed) = NumClusters

\* C8 witness: a finished packing of more than maxInsertion clusters, not
\* already in order, in which two clusters of equal size were packed against
\* the order of their original indices.
C8_Witness ==
    /\ pc = "packed"
    /\ NumClusters > maxInsertion
    /\ \E a, b \in 0..(NumClusters - 1) :
          a < b /\ clusters[a].NumVectors < clusters[b].NumVectors
    /\ \E a, b \in 1..Len(placed) :
          a < b /\ placed[a].size = placed[b].size /\ placed[a].id > placed[b].id

\* ------------------------------------------- BuildVectorDatabase runs
\* hintSz values tried
HintSzSamples == {0, 1}

\* BuildVectorDatabase called on what ReadAllClusters returns: l := hintSz * 125
BuildInputs ==
    {[entry |-> "BuildVectorDatabase", files |-> Files(sizes, dim, 0),
      numClusters |-> Len(sizes), dim |-> dim,
      numVectors |-> SumSeq(sizes), cap |-> hs * LTargetFactor] :
        sizes \in SizeLists, dim \in 1..2, hs \in HintSzSamples}

InitBuild ==
    /\ input \in BuildInputs
    /\ precBits \in PrecBitsSamples
    /\ pc = "ReadAllClusters"
    /\ InitServer
    /\ InitNoClient

NextBuild == ReadAllClusters \/ PackStart \/ PackStep \/ PickParams \/ FillCluster \/ NewDatabase

SpecBuild == InitBuild /\ [][NextBuild]_vars

\* ------------------------------------------ claims: BuildVectorDatabase
\* the stripe (0-based) PackClusters put cluster c in
StripeOf(c) ==
    CHOOSE j \in 0..(Len(cols) - 1) : \E k \in 1..Len(cols[j + 1]) : cols[j + 1][k] = c

\* position (1-based) of cluster c inside its stripe
PosInStripe(c) ==
    CHOOSE k \in 1..Len(cols[StripeOf(c) + 1]) : cols[StripeOf(c) + 1][k] = c

\* rows taken by the clusters packed before c in c's stripe
RowBase(c) ==
    SumSeq([k \in 1..(PosInStripe(c) - 1) |->
                clusters[cols[StripeOf(c) + 1][k]].NumVectors])

\* C3: once indexMap is filled, for every cluster c, (indexMap[c] mod M) / dim is
\* the stripe PackClusters put c in and indexMap[c] / M + NumVectors <= L, with
\* L = max(colRowCounts) and M = len(cols) * dim; the fill loop never panics on
\* a row overflow.
C3_IndexMapConsistent ==
    /\ panicMsg \notin {"Should not happen", "index out of range"}
    /\ pc \in {"fill", "newdb", "built"} =>
          /\ l = MaxSeq(col_szs)
          /\ m = Len(cols) * metadata.Dim
          /\ \A c \in DOMAIN indexMap :
                /\ (indexMap[c] % m) \div metadata.Dim = StripeOf(c)
                /\ (indexMap[c] \div m) + clusters[c].NumVectors <= l
    /\ pc \in {"newdb", "built"} => DOMAIN indexMap = 0..(NumClusters - 1)

\* C3 witness: the matrix is built, it has several stripes, and some cluster
\* starts below the first row of a stripe other than stripe 0.
C3_Witness ==
    /\ pc = "built"
    /\ Len(cols) >= 2
    /\ \E c \in DOMAIN indexMap :
          /\ StripeOf(c) >= 1
          /\ indexMap[c] \div m >= 1
          /\ clusters[c].NumVectors >= 1

\* row range [first, first + NumVectors) and first column of a cluster, from indexMap
FirstRow(c) == indexMap[c] \div m
FirstCol(c) == indexMap[c] % m

\* C7: two distinct clusters of one stripe occupy disjoint row ranges
\* [indexMap[c]/M, indexMap[c]/M + NumVectors), clusters of different stripes
\* write to disjoint column ranges, and no slot of vals is written for two
\* different clusters.
C7_DisjointRanges ==
    /\ \A k \in DOMAIN writers : Cardinality(writers[k]) <= 1
    /\ \A k \in DOMAIN writers : \A c \in writers[k] :
          /\ FirstRow(c) <= k \div m
          /\ k \div m < FirstRow(c) + clusters[c].NumVectors
          /\ FirstCol(c) <= k % m
          /\ k % m < FirstCol(c) + metadata.Dim
    /\ \A c, d \in DOMAIN indexMap :
          c # d =>
             IF StripeOf(c) = StripeOf(d)
             THEN \/ FirstRow(c) + clusters[c].NumVectors <= FirstRow(d)
                  \/ FirstRow(d) + clusters[d].NumVectors <= FirstRow(c)
             ELSE \/ FirstCol(c) + metadata.Dim <= FirstCol(d)
                  \/ FirstCol(d) + metadata.Dim <= FirstCol(c)

\* C7 witness: the matrix is built with two stripes of two-lane vectors, and one
\* stripe holds two non-empty clusters.
C7_Witness ==
    /\ pc = "built"
    /\ metadata.Dim = 2
    /\ Len(cols) >= 2
    /\ \E c, d \in DOMAIN indexMap :
          /\ c # d
          /\ StripeOf(c) = StripeOf(d)
          /\ clusters[c].NumVectors >= 1
          /\ clusters[d].NumVectors >= 1
          /\ \A k \in DOMAIN writers :
                (k \div m \in FirstRow(c)..(FirstRow(c) + clusters[c].NumVectors - 1)
                 /\ k % m \in FirstCol(c)..(FirstCol(c) + metadata.Dim - 1))
                    => writers[k] = {c}

\* the slot of vals that holds lane j of vector x of cluster c, from the packing
SlotOf(c, x, j) == (RowBase(c) + x) * m + StripeOf(c) * metadata.Dim + j

\* the component stored there
Component(c, x, j) == clusters[c].Vectors[x * metadata.Dim + j + 1]

\* C4 as stated: every stored value is the int8 component reinterpreted as an
\* unsigned byte and zero-extended, hence in [0, 255] (-1 stored as 255).
C4_StoredAsByte ==
    pc \in {"fill", "newdb", "built"} =>
        \A c \in DOMAIN indexMap :
            \A x \in 0..(clusters[c].NumVectors - 1) : \A j \in 0..(metadata.Dim - 1) :
                vals[SlotOf(c, x, j)] = Word(Component(c, x, j) % 256)

\* C4 amended: every stored value is the int8 component sign-extended to 64
\* bits, that is the component modulo 2^64: a component v >= 0 is stored as v,
\* and a component v < 0 as 2^64 - |v| (-1 is stored as 2^64 - 1).
C4_StoredSignExtended ==
    pc \in {"fill", "newdb", "built"} =>
        \A c \in DOMAIN indexMap :
            \A x \in 0..(clusters[c].NumVectors - 1) : \A j \in 0..(metadata.Dim - 1) :
                LET w == vals[SlotOf(c, x, j)]
                    v == Component(c, x, j)
                IN IF v >= 0
                   THEN w = Word(v)
                   ELSE /\ AddU64(w, Word(-v)) = Zero64
                        /\ w # Zero64

\* C4 witness: the matrix is built and holds a negative and a positive component.
C4_Witness ==
    /\ pc = "built"
    /\ \E c \in DOMAIN indexMap : \E x \in 0..(clusters[c].NumVectors - 1) :
          \E j \in 0..(metadata.Dim - 1) :
             /\ Component(c, x, j) < 0
             /\ vals[SlotOf(c, x, j)] # Zero64
    /\ \E c \in DOMAIN indexMap : \E x \in 0..(clusters[c].NumVectors - 1) :
          \E j \in 0..(metadata.Dim - 1) : Component(c, x, j) > 0

\* P < 2^pb on the integers, for the modelled P (all below 2^BigShift)
BelowTwoToThe(P, pb) == IF pb >= BigShift THEN TRUE ELSE P < 2 ^ pb

\* C9: BuildVectorDatabase fails before the matrix is allocated whenever the
\* backend returns no parameters, or Logq is not 64, or P < 2^precBits on the
\* integers, for every uint64 precBits (also precBits >= 64).
C9_RejectsBadParams ==
    pc \in {"fill", "newdb", "built"} =>
        /\ p # Nil
        /\ p.Logq = 64
        /\ ~BelowTwoToThe(p.P, precBits)

\* ------------------------------------------------------------- main
\* faulty variant: the hint exchange is left out of the round
RunRoundCalls_nohint(co) ==
    <<"QueryEmbeddings", "Answer",
      IF co THEN "ReconstructWithinCluster" ELSE "ReconstructWithinBin">>

\* faulty variant: the reconstruction is chosen the wrong way round
RunRoundCalls_flipped(co) ==
    <<"PreprocessQuery", "HintAnswer", "ProcessHintApply", "QueryEmbeddings", "Answer",
      IF co THEN "ReconstructWithinBin" ELSE "ReconstructWithinCluster">>

\* runRound: the client and server calls it makes, in order
RunRoundCalls(co) ==
    <<"PreprocessQuery", "HintAnswer", "ProcessHintApply", "QueryEmbeddings", "Answer",
      IF co THEN "ReconstructWithinCluster" ELSE "ReconstructWithinBin">>

\* main, lines 252-253: client.Setup(server.Hint)
Setup ==
    /\ pc = "Setup"
    /\ hint # Nil
    /\ calls' = Append(calls, "Setup")
    /\ pc' = "readQueryLine"
    /\ UNCHANGED <<panicMsg, dataVars, packVars, buildVars,
                   lines, clusterOnly, queryCount, round, scores, topK, written, hint>>

\* main, lines 257-260, and readQueryLine: end of file ends the loop, a
\* malformed line panics, a well-formed line starts a round
ReadQueryLine ==
    /\ pc = "readQueryLine"
    /\ calls' = Append(calls, "readQueryLine")
    /\ IF lines = <<>>
       THEN /\ pc' = "exit"
            /\ UNCHANGED <<panicMsg, lines, round>>
       ELSE IF Head(lines) = "malformed"
       THEN /\ pc' = "panic"
            /\ panicMsg' = "Error reading query line"
            /\ UNCHANGED <<lines, round>>
       ELSE /\ pc' = "runRound"
            /\ lines' = Tail(lines)
            /\ round' = 0
            /\ UNCHANGED panicMsg
    /\ UNCHANGED <<dataVars, packVars, buildVars, clusterOnly, queryCount, scores,
                   topK, written, hint>>

\* the next statement of runRound is the call of name
Call(name) ==
    /\ pc = "runRound"
    /\ round < Len(RunRoundCalls(clusterOnly))
    /\ RunRoundCalls(clusterOnly)[round + 1] = name
    /\ calls' = Append(calls, name)
    /\ round' = round + 1
    /\ pc' = IF round + 1 = Len(RunRoundCalls(clusterOnly)) THEN "writeResults" ELSE "runRound"
    /\ UNCHANGED <<panicMsg, dataVars, packVars, buildVars, lines, clusterOnly, queryCount,
                   topK, written, hint>>

PreprocessQuery == Call("PreprocessQuery") /\ UNCHANGED scores

HintAnswer == Call("HintAnswer") /\ UNCHANGED scores

ProcessHintApply == Call("ProcessHintApply") /\ UNCHANGED scores

QueryEmbeddings == Call("QueryEmbeddings") /\ UNCHANGED scores

Answer == Call("Answer") /\ UNCHANGED scores

\* the reconstruction returns the scores; how many is the protocol's business
ReconstructWithinCluster ==
    Call("ReconstructWithinCluster") /\ scores' \in 0..MaxScores

ReconstructWithinBin ==
    Call("ReconstructWithinBin") /\ scores' \in 0..MaxScores

\* main, lines 262-263, and writeResults: numRes = min(k, len(*scores)) pairs
\* are written as one line
WriteResults ==
    /\ pc = "writeResults"
    /\ calls' = Append(calls, "writeResults")
    /\ IF scores = 0
       THEN /\ pc' = "panic"
            /\ panicMsg' = "Error: No scores to write"
            /\ UNCHANGED <<queryCount, written>>
       ELSE /\ pc' = "readQueryLine"
            /\ written' = 2 * (IF topK > scores THEN scores ELSE topK)
            /\ queryCount' = queryCount + 1
            /\ UNCHANGED panicMsg
    /\ UNCHANGED <<dataVars, packVars, buildVars, lines, clusterOnly, round, scores,
                   topK, hint>>

QueryFiles == UNION {[1..n -> {"ok", "malformed"}] : n \in 0..MaxQueries}

\* hintSz := uint64(900)
hintSz == 900

\* filepath.Dir of the paths that occur
Dir(path) == IF path = "" THEN "." ELSE IF path \in {"d/p", "d/q.csv", "d/q.txt"} THEN "d" ELSE "e"

\* filepath.Ext of the paths that occur
Ext(path) == IF path \in {"d/q.csv", "e/q.csv"} THEN ".csv"
             ELSE IF path = "d/q.txt" THEN ".txt" ELSE ""

\* argumentsValidation: the message it panics with, "" when it returns
argumentsValidation(preamble, topk, query) ==
    IF preamble = "" THEN "Error: Preamble is required"
    ELSE IF topk <= 0 THEN "Error: topk must be a positive integer"
    ELSE IF query # "" /\ Ext(query) # ".csv"
    THEN "Error: when specified, query must be a csv file"
    ELSE IF query # "" /\ Dir(query) # Dir(preamble)
    THEN "Error: query must be in the same directory as indicated by preamble"
    ELSE ""

\* filesValidation, on the set of files that exist: the message it panics with
filesValidation(existing) ==
    IF "metadata" \notin existing THEN "Error: metadata file does not exist"
    ELSE IF "query" \notin existing THEN "Error: query file does not exist"
    ELSE IF "cluster_0" \notin existing THEN "Error: cluster file does not exist"
    ELSE ""

\* command lines tried: flag values, defaults included
CommandLines ==
    [preamble : {"", "d/p"}, topk : {0, 1, 10}, query : {"", "d/q.csv", "d/q.txt", "e/q.csv"},
     precBits : {5, 7, 16}, clusterOnly : BOOLEAN]

\* what the file system holds and allows: the files filesValidation looks for,
\* and whether the two output files can be created
FileSystems ==
    [existing : {{"metadata", "query", "cluster_0"}, {"query", "cluster_0"},
                 {"metadata", "cluster_0"}, {"metadata", "query"}},
     createOutput : BOOLEAN, createPerf : BOOLEAN]

\* main, lines 150-235: flags, validation, the query reader and the two writers
Startup ==
    /\ pc = "main"
    /\ \E cl \in CommandLines, fs \in FileSystems :
          LET failure ==
                IF argumentsValidation(cl.preamble, cl.topk, cl.query) # ""
                THEN argumentsValidation(cl.preamble, cl.topk, cl.query)
                ELSE IF filesValidation(fs.existing) # ""
                THEN filesValidation(fs.existing)
                ELSE IF ~fs.createOutput THEN "Error creating output file"
                ELSE IF ~fs.createPerf THEN "Error creating performance output file"
                ELSE ""
          IN IF failure # ""
             THEN /\ pc' = "panic"
                  /\ panicMsg' = failure
                  /\ UNCHANGED <<precBits, clusterOnly, topK>>
             ELSE /\ pc' = "ReadAllClusters"
                  /\ precBits' = cl.precBits
                  /\ clusterOnly' = cl.clusterOnly
                  /\ topK' = cl.topk
                  /\ UNCHANGED panicMsg
    /\ UNCHANGED <<input, metadata, clusters, packVars, buildVars,
                   calls, lines, queryCount, round, scores, written, hint>>

\* server.ProcessVectorsFromClusters, after BuildVectorDatabase has returned:
\* the server retains Hint = {metadata, pirHint, indexMap}
ProcessVectorsFromClusters ==
    /\ pc = "built"
    /\ input.entry = "main"
    /\ hint' = [Metadata |-> metadata, IndexMap |-> indexMap]
    /\ pc' = "Setup"
    /\ UNCHANGED <<panicMsg, dataVars, packVars, buildVars,
                   calls, lines, clusterOnly, queryCount, round, scores, topK, written>>

\* cluster files main is run on: n clusters of sizes n, n-1, ..., 1, and a
\* metadata file whose num_vectors is their total or one more
MainInputs ==
    {[entry |-> "main", files |-> Files([k \in 1..n |-> n + 1 - k], dim, 0),
      numClusters |-> n, dim |-> dim,
      numVectors |-> SumSeq([k \in 1..n |-> n + 1 - k]) + extra,
      cap |-> hintSz * LTargetFactor] :
        n \in 0..MaxClusters, dim \in 1..2, extra \in 0..1}

\* main before flag.Parse: the flags hold their defaults
InitMain ==
    /\ input \in MainInputs
    /\ precBits = 5
    /\ pc = "main"
    /\ InitServer
    /\ calls = <<>>
    /\ lines \in QueryFiles
    /\ clusterOnly = FALSE
    /\ queryCount = 0
    /\ round = 0
    /\ scores = 0
    /\ topK = 10
    /\ written = 0
    /\ hint = Nil

NextMain ==
    \/ Startup
    \/ ReadAllClusters
    \/ PackStart
    \/ PackStep
    \/ PickParams
    \/ FillCluster
    \/ NewDatabase
    \/ ProcessVectorsFromClusters
    \/ Setup
    \/ ReadQueryLine
    \/ PreprocessQuery
    \/ HintAnswer
    \/ ProcessHintApply
    \/ QueryEmbeddings
    \/ Answer
    \/ ReconstructWithinCluster
    \/ ReconstructWithinBin
    \/ WriteResults

SpecMain == InitMain /\ [][NextMain]_vars

\* ------------------------------------------------------ claims: main
RECURSIVE Count(_, _)
\* how often name occurs in the call history s
Count(s, name) ==
    IF s = <<>> THEN 0 ELSE (IF Head(s) = name THEN 1 ELSE 0) + Count(Tail(s), name)

HintCalls == {"PreprocessQuery", "HintAnswer", "ProcessHintApply"}

\* C5 as stated: the hint exchange is one-shot: PreprocessQuery, HintAnswer and
\* ProcessHintApply are each executed once, before the first QueryEmbeddings,
\* and later queries consist only of QueryEmbeddings, Answer, Reconstruct*.
C5_HintOneShot ==
    /\ \A h \in HintCalls : Count(calls, h) <= 1
    /\ \A a, b \in 1..Len(calls) :
          (a < b /\ calls[a] = "QueryEmbeddings") => calls[b] \notin HintCalls

\* C5 amended: the hint exchange is per query: every QueryEmbeddings is
\* directly preceded by PreprocessQuery, HintAnswer, ProcessHintApply of the
\* same round, and after n completed queries each of the three has been
\* executed n times; Setup is executed once, first.
C5_HintEveryRound ==
    /\ \A k \in 1..Len(calls) :
          calls[k] = "QueryEmbeddings" =>
             /\ k >= 5
             /\ calls[k - 3] = "PreprocessQuery"
             /\ calls[k - 2] = "HintAnswer"
             /\ calls[k - 1] = "ProcessHintApply"
             /\ calls[k - 4] = "readQueryLine"
    /\ pc \in {"readQueryLine", "exit"} =>
          /\ \A h \in HintCalls : Count(calls, h) = queryCount
          /\ Count(calls, "QueryEmbeddings") = queryCount
          /\ Count(calls, "Answer") = queryCount
    /\ calls # <<>> => calls[1] = "Setup" /\ Count(calls, "Setup") = 1

\* C5 witness: two queries have been answered.
C5_Witness ==
    /\ pc = "readQueryLine"
    /\ queryCount >= 2
    /\ Count(calls, "QueryEmbeddings") >= 2

\* the calls of one iteration of main's loop, for the flag value co
LoopCalls(co) ==
    <<"readQueryLine", "PreprocessQuery", "HintAnswer", "ProcessHintApply",
      "QueryEmbeddings", "Answer",
      IF co THEN "ReconstructWithinCluster" ELSE "ReconstructWithinBin",
      "writeResults">>

\* C10: Setup is called once, first; for every query line read the calls are, in
\* this order, PreprocessQuery, HintAnswer, ProcessHintApply, QueryEmbeddings,
\* Answer, one reconstruction (ReconstructWithinCluster iff clusterOnly, else
\* ReconstructWithinBin), writeResults, all before the next line is read.
C10_CallOrder ==
    \A k \in 1..Len(calls) :
        calls[k] = IF k = 1 THEN "Setup"
                   ELSE LoopCalls(clusterOnly)[((k - 2) % Len(LoopCalls(clusterOnly))) + 1]

\* C10 witness: main has finished after two queries with clusterOnly set.
C10_Witness ==
    /\ pc = "exit"
    /\ clusterOnly
    /\ queryCount >= 2
    /\ Count(calls, "ReconstructWithinCluster") = queryCount
    /\ Count(calls, "writeResults") = queryCount

====
